---- MODULE Spec2Model ----
(***************************************************************************)
(* Photo synchronisation between a Drive folder and Salesforce records:    *)
(* load_sf_data, check_drive_access, process_drive_files, process_image,   *)
(* upload_new_image, check_existing_image, get_sf_record,                  *)
(* perform_bulk_updates and retry_on_failure of mb/common_functions.py,    *)
(* the chunked bulk loops of the two photos_to_*_bulk.py scripts, and main *)
(* of process_photos.py.                                                   *)
(***************************************************************************)
EXTENDS Integers, Sequences, FiniteSets, TLC

(* ------------------------------ bounds --------------------------------- *)
MaxFiles == 2        \* longest Drive listing
MaxRuns == 2         \* full runs in one behaviour
MaxFail == 1         \* failing external calls in one behaviour
MaxExt == 1          \* external changes of the CRM in one behaviour
MaxMut == 3          \* longest mutation list handed to the scripts' bulk loop
ChunkUnit == 1       \* the scripts' chunk sizes 100 and 50, counted in units of 50 / ChunkUnit
MaxRetries == 3      \* largest max_retries a wrapped call is decorated with

(* --------------------------- file names -------------------------------- *)
\* A file name is the sequence of its characters.
NamePhoto5 == <<"p","h","o","t","o","5",".","j","p","g">>
NamePhoto005 == <<"P","h","o","t","o","0","0","5",".","J","P","G">>
NamePhoto9 == <<"p","h","o","t","o","9",".","j","p","g">>
NameNoDigits == <<"p","h","o","t","o",".","j","p","g">>
NameBak == <<"p","h","o","t","o","5",".","j","p","g",".","b","a","k">>
Names == {NamePhoto5, NamePhoto005, NamePhoto9, NameNoDigits, NameBak}

Digits == {"0","1","2","3","4","5","6","7","8","9"}

\* re.IGNORECASE: characters are compared after case folding.
Lower(c) ==
  CASE c = "P" -> "p" [] c = "H" -> "h" [] c = "O" -> "o" [] c = "T" -> "t"
    [] c = "J" -> "j" [] c = "G" -> "g" [] OTHER -> c

\* s[i..] starts with the literal lit, ignoring case.
LitAt(s, i, lit) ==
  /\ Len(s) >= i + Len(lit) - 1
  /\ \A k \in 1..Len(lit) : Lower(s[i + k - 1]) = lit[k]

\* Length of the greedy digit run \d+ that starts at position i.
RECURSIVE DigitRun(_, _)
DigitRun(s, i) ==
  IF i <= Len(s) /\ s[i] \in Digits THEN 1 + DigitRun(s, i + 1) ELSE 0

NoMatch == <<"no match">>

\* file_regex.match(file_name) for re.compile(r"photo(\d+)\.jpg", re.IGNORECASE):
\* anchored at the start only; the result is group(1) or NoMatch.
RegexMatch(s) ==
  LET d == DigitRun(s, 6) IN
  IF LitAt(s, 1, <<"p","h","o","t","o">>) /\ d >= 1
       /\ LitAt(s, 6 + d, <<".","j","p","g">>)
  THEN SubSeq(s, 6, 5 + d) ELSE NoMatch

\* str.lstrip('0')
RECURSIVE LStripZeros(_)
LStripZeros(s) ==
  IF s # <<>> /\ s[1] = "0" THEN LStripZeros(Tail(s)) ELSE s

ObjectNames == {"Account", "Contact"}

\* migration_id = f"Parishes_{record_number}" if object_name == 'Account'
\*                else str(record_number)
MigrationId(objName, recordNumber) ==
  IF objName = "Account" THEN <<"Parishes_">> \o recordNumber ELSE recordNumber

(* ------------------------- CRM data and HTML --------------------------- *)
\* Records of the CRM: their object type, display name and migration key
\* (<<>> stands for a missing or empty Archdpdx_Migration_Id__c).
RecIds == {"A1", "K1", "K2"}
RecType(r) == IF r = "A1" THEN "Account" ELSE "Contact"
RecName(r) == CASE r = "A1" -> "St Mary" [] r = "K1" -> "John Doe" [] OTHER -> "Jane Roe"
RecMig(r) ==
  CASE r = "A1" -> <<"Parishes_", "5">> [] r = "K1" -> <<"5">> [] OTHER -> <<>>
NoId == "None"
Target(objName) == IF objName = "Account" THEN "A1" ELSE "K1"

\* ContentDocumentId of a ContentVersion: an identifier of its own.
DocOf(ver) == 100 + ver

\* Values of the photo field.  An image tag is kept as the way it is written
\* (form) and the four inputs of the template.
\*   "closed"     <p><img src=".." alt=".."></img></p>     (line 224)
\*   "selfclosed" <p><img src=".." alt=".." /></p>         (line 285)
\*   "serialized" <p><img alt=".." src=".."/></p>, what the parser writes back
\*   "edited"     the same image in markup the parser keeps apart
\*                (other attributes or text around it)
NoneVal == [k |-> "None", form |-> "-", ver |-> 0, doc |-> 0, name |-> <<>>]
EmptyStr == [k |-> "str", form |-> "empty", ver |-> 0, doc |-> 0, name |-> <<>>]
Html(form, ver, doc, name) ==
  [k |-> "str", form |-> form, ver |-> ver, doc |-> doc, name |-> name]

\* str(BeautifulSoup(s, 'html.parser')): <img> is a void element, so the
\* three spellings of the same tag are written back the same way; other
\* markup is kept, and '' gives ''.
NormalizeIdentity(h) == h

Normalize(h) ==
  IF h.form \in {"closed", "selfclosed", "serialized"}
  THEN [h EXCEPT !.form = "serialized"]
  ELSE h

\* The tag of check_existing_image (lines 220-224).
ExistingTag(ver, doc, name) == Html("closed", ver, doc, name)
\* The tag of upload_new_image (lines 280-285).
UploadTagWrongDoc(ver, doc, name) == Html("selfclosed", ver, ver, name)

UploadTag(ver, doc, name) == Html("selfclosed", ver, doc, name)

(* ------------------------- outcome messages ---------------------------- *)
GREEN == "ESC[32m"
RESET == "ESC[0m"
ResUnknown == <<"Unknown">>
ResSkipped == <<"Skipped">>
ResUpdated == <<GREEN, "Updated", RESET>>
ResLoaded == <<GREEN, "Loaded-Linked (Pass)", RESET>>
ResNotFound == <<"SF Record Not Found">>
ResInvalid == <<"Invalid file name format">>
ResError(msg) == <<"Error: ", msg>>

MsgTransport == "HTTP 503"
MsgRecordNotFound == "record not found"
MsgNotInSalesforce == "exists in Drive but not in Salesforce"

NoMut == [Id |-> NoId, field |-> NoneVal]

\* "<text>" in result_msg_raw, on the pieces a message is built from.
Contains(res, piece) == \E i \in 1..Len(res) : res[i] = piece

(* ------------------------------ state ---------------------------------- *)
VARIABLES
  listing,          \* Drive: names of the image files of the subfolder, in listing order
  sfPresent,        \* CRM: ids of the records that exist
  sfField,          \* CRM: photo field of each record
  attachments,      \* CRM: ContentVersion rows [id, name, rec]
  nextVer,          \* CRM: id of the next ContentVersion
  run,              \* runs started so far
  pc,               \* position of the program
  objName,          \* object_name of the current run
  id_map,           \* load_sf_data: migration id -> record id
  existing_images,  \* load_sf_data: record id -> attached file names
  all_items,        \* process_drive_files: the listed files
  idx,              \* process_drive_files: index of the file being processed
  cur,              \* locals of the file being processed
  update_records,   \* process_drive_files: mutations collected
  rows,             \* process_drive_files: all_processed_sf_records_info
  counters,         \* process_drive_files: the summary counters
  calls,            \* history: steps taken for the file being processed
  fileLog,          \* history: per processed file, its steps and its mutation
  fails,            \* history: failed external calls so far
  exts,             \* history: external changes so far
  bulkLog,          \* history: bulk calls of this run, [ids, ok, results]
  errLog,           \* perform_bulk_updates: entries of the error log, [record_id, cause]
  csv,              \* write_updated_records_to_csv: the lines of the file
  prev,             \* history: summary of the previous run
  max_retries,      \* retry_on_failure: the cap on attempts
  initial_wait,     \* retry_on_failure: the first wait
  backoff,          \* retry_on_failure: the factor of the wait
  retries,          \* retry_on_failure.wrapper: retries so far
  wait,             \* retry_on_failure.wrapper: the next wait
  attempts,         \* history: the answers to the invocations of the wrapped call
  sleeps,           \* history: the arguments of time.sleep, in order
  page_token,       \* process_drive_files: files the listed pages covered so far
  environ,          \* os.environ: the names of the settings that are set
  missing_vars,     \* validate_environment_variables: the names reported missing
  connected         \* history: the external systems contacted, in order

vars == <<listing, sfPresent, sfField, attachments, nextVer, run, pc, objName,
          id_map, existing_images, all_items, idx, cur, update_records, rows,
          counters, calls, fileLog, fails, exts, bulkLog, errLog, csv, prev,
          max_retries, initial_wait, backoff, retries, wait, attempts, sleeps,
          page_token, environ, missing_vars, connected>>

crmVars == <<sfPresent, sfField, attachments, nextVer>>
indexVars == <<objName, id_map, existing_images>>
loopVars == <<all_items, idx, cur, update_records, rows, counters, calls, fileLog>>

histVars == <<fails, exts, bulkLog, errLog, csv, prev>>

\* What the photo run leaves alone: the retry wrapper taken alone, the
\* paging of the Drive listing, and the start of the program.
wrapperVars == <<max_retries, initial_wait, backoff, retries, wait, attempts>>
sideVars == <<wrapperVars, sleeps, page_token, environ, missing_vars, connected>>

\* The side variables at rest.
SideIdle ==
  /\ max_retries = 0
  /\ initial_wait = 0
  /\ backoff = 0
  /\ retries = 0
  /\ wait = 0
  /\ attempts = <<>>
  /\ sleeps = <<>>
  /\ page_token = 0
  /\ environ = {}
  /\ missing_vars = <<>>
  /\ connected = <<>>

NoRow == [Salesforce_Id |-> NoId, Record_Name |-> "None", MigrationId |-> <<"None">>,
          Processed_File_Name |-> <<>>, Processing_Result |-> <<>>]
NoCur == [file_id |-> 0, file_name |-> <<>>, rec |-> NoId, sf_record |-> NoneVal,
          ver |-> 0, row |-> NoRow]
ZeroCounters == [processed |-> 0, updated |-> 0, skipped |-> 0, errors |-> 0]
NoPrev == [ran |-> FALSE, objName |-> "-", clean |-> FALSE, orphans |-> {}]

\* Listings of at most n files.
RECURSIVE SeqsUpTo(_, _)
SeqsUpTo(S, n) ==
  IF n = 0 THEN {<<>>}
  ELSE LET shorter == SeqsUpTo(S, n - 1)
       IN shorter \cup {Append(q, x) : q \in {t \in shorter : Len(t) = n - 1}, x \in S}

\* Photo field values a record may hold before the first run.
InitFields(r) ==
  { NoneVal, EmptyStr,
    Html("selfclosed", 1, DocOf(1), NamePhoto5),
    Html("edited", 1, DocOf(1), NamePhoto5) }

\* Attachments before the first run: one on a record of the other type, and
\* possibly photo5.jpg on the record t.
InitAttachments(t) ==
  { <<[id |-> 2, name |-> NamePhoto5, rec |-> "K2"]>>,
    <<[id |-> 2, name |-> NamePhoto5, rec |-> "K2"],
      [id |-> 1, name |-> NamePhoto5, rec |-> t]>> }

Init ==
  /\ listing \in SeqsUpTo(Names, MaxFiles)
  /\ sfPresent = RecIds
  /\ objName \in ObjectNames
  /\ sfField \in {f \in [RecIds -> InitFields(Target(objName))] :
                    \A r \in RecIds \ {Target(objName)} : f[r] = NoneVal}
  /\ attachments \in InitAttachments(Target(objName))
  /\ nextVer = 3
  /\ run = 0
  /\ pc = "menu"
  /\ id_map = <<>>
  /\ existing_images = <<>>
  /\ all_items = <<>>
  /\ idx = 0
  /\ cur = NoCur
  /\ update_records = <<>>
  /\ rows = <<>>
  /\ counters = ZeroCounters
  /\ calls = <<>>
  /\ fileLog = <<>>
  /\ fails = 0
  /\ exts = 0
  /\ bulkLog = <<>>
  /\ errLog = <<>>
  /\ csv = <<>>
  /\ prev = NoPrev
  /\ SideIdle

(* --------------------------- load_sf_data ------------------------------ *)
\* PathOnClient of the ContentVersion rows published on record r, in order.
RECURSIVE PathsOf(_, _)
PathsOf(atts, r) ==
  IF atts = <<>> THEN <<>>
  ELSE IF Head(atts).rec = r THEN <<Head(atts).name>> \o PathsOf(Tail(atts), r)
       ELSE PathsOf(Tail(atts), r)

\* id_map (lines 356-359): records of the type that carry a migration id.
BuildIdMap(o) ==
  LET recs == {r \in sfPresent : RecType(r) = o /\ RecMig(r) # <<>>}
      keys == {RecMig(r) : r \in recs}
  IN [k \in keys |-> CHOOSE r \in recs : RecMig(r) = k]

\* existing_images (lines 361-369): every record of the type, with the
\* names attached to it.
BuildExistingImages(o) ==
  [r \in {x \in sfPresent : RecType(x) = o} |-> PathsOf(attachments, r)]

\* History of the run that ends.  The mutations of the files processed so
\* far, in file order.
RECURSIVE MutsOf(_)
MutsOf(log) ==
  IF log = <<>> THEN <<>>
  ELSE (IF Head(log).mut = NoMut THEN <<>> ELSE <<Head(log).mut>>) \o MutsOf(Tail(log))

\* An attachment was created during these steps.
Created(log) == \E k \in 1..Len(log) : log[k].call = "create" /\ log[k].ok

\* The mutation of file i was accepted by the bulk call of the run.
Written(i) ==
  /\ fileLog[i].mut # NoMut
  /\ bulkLog # <<>>
  /\ bulkLog[Len(bulkLog)].ok
  /\ bulkLog[Len(bulkLog)].results[Len(MutsOf(SubSeq(fileLog, 1, i)))].success

\* The files of the run that got an attachment while their mutation was not
\* written: the fetch after the create failed, or the bulk update rejected
\* the record or failed.
Orphans ==
  {[rec |-> rows[i].Salesforce_Id, name |-> rows[i].Processed_File_Name] :
     i \in {k \in 1..Len(fileLog) : Created(fileLog[k].calls) /\ ~Written(k)}}

\* The menu choice and load_sf_data: the run starts with fresh indexes.  The
\* runs of one behaviour take the same menu choice, drawn in Init.
LoadSfData ==
  /\ pc = "menu"
  /\ run < MaxRuns
  /\ id_map' = BuildIdMap(objName)
  /\ existing_images' = BuildExistingImages(objName)
  /\ UNCHANGED objName
  /\ run' = run + 1
  /\ pc' = "access"
  /\ all_items' = <<>>
  /\ idx' = 0
  /\ cur' = NoCur
  /\ update_records' = <<>>
  /\ rows' = <<>>
  /\ counters' = ZeroCounters
  /\ calls' = <<>>
  /\ fileLog' = <<>>
  /\ UNCHANGED <<fails, exts>>
  /\ bulkLog' = <<>>
  /\ errLog' = <<>>
  /\ csv' = <<>>
  /\ prev' = [ran |-> run > 0, objName |-> objName, clean |-> fails = 0 /\ exts = 0,
              orphans |-> Orphans]
  /\ UNCHANGED <<listing, crmVars>>
  /\ UNCHANGED sideVars

(* ------------- process_photos: the access check (127-129) -------------- *)
\* check_drive_access (102-121) lists one file of the folder: it answers
\* True, or False after a 403; every other HttpError is raised again, and
\* nothing in process_photos or main catches it.
CheckDriveAccess ==
  /\ pc = "access"
  /\ \/ /\ pc' = "subdir"
        /\ UNCHANGED fails
     \/ /\ fails < MaxFail
        /\ fails' = fails + 1
        /\ pc' \in {"access_denied", "access_raised"}
  /\ UNCHANGED <<listing, crmVars, run, indexVars, loopVars, exts, bulkLog, errLog, csv, prev>>
  /\ UNCHANGED sideVars

\* Lines 127-129: the denial is logged and process_photos returns to the menu.
AccessDenied ==
  /\ pc = "access_denied"
  /\ pc' = "menu"
  /\ UNCHANGED <<listing, crmVars, run, indexVars, loopVars, histVars>>
  /\ UNCHANGED sideVars

(* ----------------- process_drive_files: the listing -------------------- *)
SubdirName(o) == IF o = "Account" THEN "Accounts" ELSE "Contacts"

SyntheticRow(what, result) ==
  [Salesforce_Id |-> NoId, Record_Name |-> "None", MigrationId |-> <<"None">>,
   Processed_File_Name |-> what, Processing_Result |-> result]

\* Lines 393-405: get_or_create_subdirectory answers an id, or None after
\* an HttpError, and then the function returns one row about it.
ResolveSubdirGoesOn ==
  /\ pc = "subdir"
  /\ \/ /\ pc' = "list"
        /\ UNCHANGED <<rows, fails>>
     \/ /\ fails < MaxFail
        /\ fails' = fails + 1
        /\ rows' = Append(rows, SyntheticRow(<<"Subdirectory: ", SubdirName(objName)>>,
                                             <<"Error finding or creating subdirectory ",
                                               SubdirName(objName)>>))
        /\ pc' = "list"
  /\ UNCHANGED <<listing, crmVars, run, indexVars, all_items, idx, cur, update_records,
                 counters, calls, fileLog, exts, bulkLog, errLog, csv, prev>>
  /\ UNCHANGED sideVars

ResolveSubdir ==
  /\ pc = "subdir"
  /\ \/ /\ pc' = "list"
        /\ UNCHANGED <<rows, fails>>
     \/ /\ fails < MaxFail
        /\ fails' = fails + 1
        /\ rows' = Append(rows, SyntheticRow(<<"Subdirectory: ", SubdirName(objName)>>,
                                             <<"Error finding or creating subdirectory ",
                                               SubdirName(objName)>>))
        /\ pc' = "dispatch"
  /\ UNCHANGED <<listing, crmVars, run, indexVars, all_items, idx, cur, update_records,
                 counters, calls, fileLog, exts, bulkLog, errLog, csv, prev>>
  /\ UNCHANGED sideVars

\* The files of the pages that were answered before a page failed.
ListedBefore == {SubSeq(listing, 1, n) : n \in {k \in 0..Len(listing) : k = 0 \/ k < Len(listing)}}

\* Lines 407-450: the files of the subfolder, or one row when the listing
\* fails or the subfolder holds no image.  The pages are taken in one step
\* here; a page that fails leaves the files of the earlier pages in
\* all_items and the function returns.
ListFilesBreaksOnError ==
  /\ pc = "list"
  /\ \/ /\ listing # <<>>
        /\ all_items' = listing
        /\ idx' = 1
        /\ pc' = "loop"
        /\ UNCHANGED <<rows, fails>>
     \/ /\ listing = <<>>
        /\ rows' = Append(rows, SyntheticRow(<<"Subdirectory: ", SubdirName(objName)>>,
                                             <<"No image files found">>))
        /\ pc' = "dispatch"
        /\ UNCHANGED <<all_items, idx, fails>>
     \/ /\ fails < MaxFail
        /\ fails' = fails + 1
        /\ all_items' \in ListedBefore
        /\ rows' = Append(rows, SyntheticRow(<<"Drive File Listing">>,
                                             <<"Unexpected error listing Drive files: ", MsgTransport>>))
        /\ IF all_items' # <<>> THEN idx' = 1 /\ pc' = "loop"
                                ELSE pc' = "dispatch" /\ UNCHANGED idx
  /\ UNCHANGED <<listing, crmVars, run, indexVars, cur, update_records,
                 counters, calls, fileLog, exts, bulkLog, errLog, csv, prev>>
  /\ UNCHANGED sideVars

ListFiles ==
  /\ pc = "list"
  /\ \/ /\ listing # <<>>
        /\ all_items' = listing
        /\ idx' = 1
        /\ pc' = "loop"
        /\ UNCHANGED <<rows, fails>>
     \/ /\ listing = <<>>
        /\ rows' = Append(rows, SyntheticRow(<<"Subdirectory: ", SubdirName(objName)>>,
                                             <<"No image files found">>))
        /\ pc' = "dispatch"
        /\ UNCHANGED <<all_items, idx, fails>>
     \/ /\ fails < MaxFail
        /\ fails' = fails + 1
        /\ all_items' \in ListedBefore
        /\ rows' = Append(rows, SyntheticRow(<<"Drive File Listing">>,
                                             <<"Unexpected error listing Drive files: ", MsgTransport>>))
        /\ pc' = "dispatch"
        /\ UNCHANGED idx
  /\ UNCHANGED <<listing, crmVars, run, indexVars, cur, update_records,
                 counters, calls, fileLog, exts, bulkLog, errLog, csv, prev>>
  /\ UNCHANGED sideVars

(* --------------- process_drive_files: one file (466-566) --------------- *)
\* current_file_csv_info as initialised at lines 471-477.
InitialRow(file_name) ==
  [Salesforce_Id |-> NoId, Record_Name |-> "N/A", MigrationId |-> <<"N/A">>,
   Processed_File_Name |-> file_name, Processing_Result |-> ResUnknown]

\* Lines 556-563: the name does not match.
InvalidRow(row) == [row EXCEPT !.Processing_Result = ResInvalid]

\* Lines 505, 549-555: no record carries the migration id.
NotFoundRow(row, mig) ==
  [row EXCEPT !.MigrationId = mig, !.Processing_Result = ResNotFound]

\* Lines 505, 512-517: the record of the file.
MatchedRow(row, mig, rec) ==
  [row EXCEPT !.MigrationId = mig, !.Salesforce_Id = rec, !.Record_Name = RecName(rec)]

\* id_map.get(migration_id), then ['Id'].
LookupAny(mig) == IF id_map = <<>> THEN NoId ELSE id_map[CHOOSE k \in DOMAIN id_map : TRUE]

Lookup(mig) == IF mig \in DOMAIN id_map THEN id_map[mig] ELSE NoId

\* Lines 466-520 and 549-566: the file is classified by its name; a file
\* without a usable name or without a record gets its row at once.
BeginFile ==
  /\ pc = "loop"
  /\ idx <= Len(all_items)
  /\ LET file_name == all_items[idx]
         m == RegexMatch(file_name)
         mig == MigrationId(objName, LStripZeros(m))
         rec == Lookup(mig)
         row == InitialRow(file_name)
     IN IF m = NoMatch \/ rec = NoId
        THEN /\ rows' = Append(rows, IF m = NoMatch THEN InvalidRow(row)
                                                    ELSE NotFoundRow(row, mig))
             /\ counters' = [counters EXCEPT !.errors = @ + 1]
             /\ fileLog' = Append(fileLog, [calls |-> <<>>, mut |-> NoMut, field |-> NoneVal])
             /\ idx' = idx + 1
             /\ calls' = <<>>
             /\ UNCHANGED <<pc, cur>>
        ELSE /\ cur' = [file_id |-> idx, file_name |-> file_name, rec |-> rec,
                        sf_record |-> NoneVal, ver |-> 0,
                        row |-> MatchedRow(row, mig, rec)]
             /\ calls' = <<>>
             /\ pc' = "get_record"
             /\ UNCHANGED <<rows, counters, fileLog, idx>>
  /\ UNCHANGED <<listing, crmVars, run, indexVars, all_items, update_records, histVars>>
  /\ UNCHANGED sideVars

\* A step taken for a file: the call, whether it succeeded, and the message of
\* its failure.
Ev(call, ok) == [call |-> call, ok |-> ok, msg |-> ""]
Failed(call, msg) == [call |-> call, ok |-> FALSE, msg |-> msg]

\* Lines 532-542: the counter a result message moves.
Count(c, res) ==
  LET d == [c EXCEPT !.processed = @ + 1] IN
  IF Contains(res, "Error: ") THEN [d EXCEPT !.errors = @ + 1]
  ELSE IF res = ResSkipped THEN [d EXCEPT !.skipped = @ + 1]
  ELSE IF Contains(res, "Loaded-Linked & Updated") THEN [d EXCEPT !.updated = @ + 1]
  ELSE d

\* The return of process_image and lines 528-548, 565-566: the row gets the
\* message, the mutation (if any) is collected, the loop moves on.
ReturnImageDropsRow(update_data, res, ev) ==
  /\ rows' = rows
  /\ counters' = Count(counters, res)
  /\ update_records' = IF update_data # NoMut THEN Append(update_records, update_data)
                       ELSE update_records
  /\ calls' = Append(calls, ev)
  /\ fileLog' = Append(fileLog, [calls |-> Append(calls, ev), mut |-> update_data,
                                 field |-> cur.sf_record])
  /\ idx' = idx + 1
  /\ cur' = NoCur
  /\ pc' = "loop"

ReturnImage(update_data, res, ev) ==
  /\ rows' = Append(rows, [cur.row EXCEPT !.Processing_Result = res])
  /\ counters' = Count(counters, res)
  /\ update_records' = IF update_data # NoMut THEN Append(update_records, update_data)
                       ELSE update_records
  /\ calls' = Append(calls, ev)
  /\ fileLog' = Append(fileLog, [calls |-> Append(calls, ev), mut |-> update_data,
                                 field |-> cur.sf_record])
  /\ idx' = idx + 1
  /\ cur' = NoCur
  /\ pc' = "loop"

\* Lines 335-337: an exception of process_image becomes the message of the file.
ErrorReturnBreaksLoop(ev) ==
  /\ rows' = Append(rows, [cur.row EXCEPT !.Processing_Result = ResError(ev.msg)])
  /\ counters' = Count(counters, ResError(ev.msg))
  /\ update_records' = update_records
  /\ calls' = Append(calls, ev)
  /\ fileLog' = Append(fileLog, [calls |-> Append(calls, ev), mut |-> NoMut,
                                 field |-> cur.sf_record])
  /\ idx' = Len(all_items) + 1
  /\ cur' = NoCur
  /\ pc' = "loop"

ErrorReturn(ev) == ReturnImage(NoMut, ResError(ev.msg), ev)

\* A call of the file that fails in transport: lines 335-337 again.
CallFails(call) ==
  /\ fails < MaxFail
  /\ fails' = fails + 1
  /\ ErrorReturn(Failed(call, MsgTransport))

\* A step of the file that goes on to the next step.
Step(call, next) ==
  /\ calls' = Append(calls, Ev(call, TRUE))
  /\ pc' = next
  /\ UNCHANGED <<rows, counters, update_records, fileLog, idx>>

\* Line 311, get_sf_record (230-245): the record is fetched first.
GetRecordThenUpload ==
  /\ pc = "get_record"
  /\ \/ /\ cur.rec \in sfPresent
        /\ cur' = [cur EXCEPT !.sf_record = sfField[cur.rec]]
        /\ Step("get_record", "download")
        /\ UNCHANGED fails
     \/ /\ cur.rec \notin sfPresent
        /\ ErrorReturn(Failed("get_record", MsgRecordNotFound))
        /\ UNCHANGED fails
     \/ CallFails("get_record")
  /\ UNCHANGED <<listing, crmVars, run, indexVars, all_items, exts, bulkLog, errLog, csv, prev>>
  /\ UNCHANGED sideVars

GetRecord ==
  /\ pc = "get_record"
  /\ \/ /\ cur.rec \in sfPresent
        /\ cur' = [cur EXCEPT !.sf_record = sfField[cur.rec]]
        /\ Step("get_record", "check")
        /\ UNCHANGED fails
     \/ /\ cur.rec \notin sfPresent
        /\ ErrorReturn(Failed("get_record", MsgRecordNotFound))
        /\ UNCHANGED fails
     \/ CallFails("get_record")
  /\ UNCHANGED <<listing, crmVars, run, indexVars, all_items, exts, bulkLog, errLog, csv, prev>>
  /\ UNCHANGED sideVars

\* Line 211: file_name in existing_images.get(sf_object_id, []).
InIndex(file_name, rec) ==
  /\ rec \in DOMAIN existing_images
  /\ \E i \in 1..Len(existing_images[rec]) : existing_images[rec][i] = file_name

\* Lines 314, 211, 315/331: the attachment index decides between the two paths.
CheckMembershipIgnoresIndex ==
  /\ pc = "check"
  /\ Step("member_check", "download")
  /\ UNCHANGED <<listing, crmVars, run, indexVars, all_items, cur, histVars>>
  /\ UNCHANGED sideVars

CheckMembership ==
  /\ pc = "check"
  /\ Step("member_check", IF InIndex(cur.file_name, cur.rec) THEN "query" ELSE "download")
  /\ UNCHANGED <<listing, crmVars, run, indexVars, all_items, cur, histVars>>
  /\ UNCHANGED sideVars
\* Lines 316-325: the stored value (None read as '') and the tag are compared
\* after normalisation.
FieldDiffersRaw(field_value, image_tag) == field_value # image_tag

FieldDiffers(field_value, image_tag) ==
  Normalize(IF field_value = NoneVal THEN EmptyStr ELSE field_value) # Normalize(image_tag)

\* Rows the query of lines 212-216 answers: same PathOnClient, same record.
QueryRows(file_name, rec) ==
  {i \in 1..Len(attachments) :
     attachments[i].name = file_name /\ attachments[i].rec = rec}

\* Lines 327 and 330: the result for an attachment that was found.
Compare(rec, field_value, tag, ev) ==
  IF FieldDiffers(field_value, tag)
  THEN ReturnImage([Id |-> rec, field |-> tag], ResUpdated, ev)
  ELSE ReturnImage(NoMut, ResSkipped, ev)

\* Lines 212-227 and 315-330: the attachment is looked up; records[0] is any
\* of the rows, the query has no ORDER BY.  A query without rows raises.
QueryAttachmentReupload ==
  /\ pc = "query"
  /\ \/ /\ QueryRows(cur.file_name, cur.rec) = {}
        /\ Step("query", "download")
        /\ UNCHANGED <<fails, cur>>
     \/ /\ \E i \in QueryRows(cur.file_name, cur.rec) :
             Compare(cur.rec, cur.sf_record,
                     ExistingTag(attachments[i].id, DocOf(attachments[i].id), cur.file_name),
                     Ev("query", TRUE))
        /\ UNCHANGED fails
     \/ CallFails("query")
  /\ UNCHANGED <<listing, crmVars, run, indexVars, all_items, exts, bulkLog, errLog, csv, prev>>
  /\ UNCHANGED sideVars

QueryAttachment ==
  /\ pc = "query"
  /\ \/ /\ QueryRows(cur.file_name, cur.rec) = {}
        /\ ErrorReturn(Failed("query", MsgNotInSalesforce))
        /\ UNCHANGED fails
     \/ /\ \E i \in QueryRows(cur.file_name, cur.rec) :
             Compare(cur.rec, cur.sf_record,
                     ExistingTag(attachments[i].id, DocOf(attachments[i].id), cur.file_name),
                     Ev("query", TRUE))
        /\ UNCHANGED fails
     \/ CallFails("query")
  /\ UNCHANGED <<listing, crmVars, run, indexVars, all_items, exts, bulkLog, errLog, csv, prev>>
  /\ UNCHANGED sideVars

\* Line 263, get_image_from_drive: the bytes of the file.
Download ==
  /\ pc = "download"
  /\ \/ /\ Step("download", "verify")
        /\ UNCHANGED <<fails, cur>>
     \/ CallFails("download")
  /\ UNCHANGED <<listing, crmVars, run, indexVars, all_items, exts, bulkLog, errLog, csv, prev>>
  /\ UNCHANGED sideVars

\* Line 267: get_sf_record again, before anything is created.
VerifyRecordSkipped ==
  /\ pc = "verify"
  /\ Step("verify_record", "create")
  /\ UNCHANGED <<fails, cur>>
  /\ UNCHANGED <<listing, crmVars, run, indexVars, all_items, exts, bulkLog, errLog, csv, prev>>
  /\ UNCHANGED sideVars

VerifyRecord ==
  /\ pc = "verify"
  /\ \/ /\ cur.rec \in sfPresent
        /\ Step("verify_record", "create")
        /\ UNCHANGED <<fails, cur>>
     \/ /\ cur.rec \notin sfPresent
        /\ ErrorReturn(Failed("verify_record", MsgRecordNotFound))
        /\ UNCHANGED fails
     \/ CallFails("verify_record")
  /\ UNCHANGED <<listing, crmVars, run, indexVars, all_items, exts, bulkLog, errLog, csv, prev>>
  /\ UNCHANGED sideVars

\* Lines 269-276: sf.ContentVersion.create.
CreateAttachment ==
  /\ pc = "create"
  /\ \/ /\ attachments' = Append(attachments,
                                  [id |-> nextVer, name |-> cur.file_name, rec |-> cur.rec])
        /\ nextVer' = nextVer + 1
        /\ cur' = [cur EXCEPT !.ver = nextVer]
        /\ Step("create", "fetch")
        /\ UNCHANGED fails
     \/ /\ CallFails("create")
        /\ UNCHANGED <<attachments, nextVer>>
  /\ UNCHANGED <<listing, sfPresent, sfField, run, indexVars, all_items, exts, bulkLog,
                 errLog, csv, prev>>
  /\ UNCHANGED sideVars

\* Lines 277-285 and 334: the document id of the new version, and the tag.
FetchCreated ==
  /\ pc = "fetch"
  /\ \/ /\ ReturnImage([Id |-> cur.rec,
                         field |-> UploadTag(cur.ver, DocOf(cur.ver), cur.file_name)],
                        ResLoaded, Ev("fetch_created", TRUE))
        /\ UNCHANGED fails
     \/ CallFails("fetch_created")
  /\ UNCHANGED <<listing, crmVars, run, indexVars, all_items, exts, bulkLog, errLog, csv, prev>>
  /\ UNCHANGED sideVars

\* Lines 568-579: the summary is printed and both lists are returned.
EndLoop ==
  /\ pc = "loop"
  /\ idx > Len(all_items)
  /\ pc' = "dispatch"
  /\ UNCHANGED <<listing, crmVars, run, indexVars, loopVars, histVars>>
  /\ UNCHANGED sideVars
(* ------------------------ perform_bulk_updates ------------------------- *)
\* The CRM after the records of recs that are not rejected were written, in
\* list order.
RECURSIVE ApplyUpdates(_, _, _, _)
ApplyUpdates(f, recs, rejected, i) ==
  IF i > Len(recs) THEN f
  ELSE ApplyUpdates(IF i \in rejected THEN f ELSE [f EXCEPT ![recs[i].Id] = recs[i].field],
                    recs, rejected, i + 1)

\* What the bulk call may answer for recs: one result per record, in list
\* order.  A record that is gone is rejected; a rejected result carries the
\* id of its record or none.
BulkReplies(recs) ==
  {r \in [1..Len(recs) -> [success : BOOLEAN, id : RecIds \cup {NoId}]] :
     \A i \in 1..Len(recs) :
       /\ r[i].id \in {recs[i].Id, NoId}
       /\ r[i].success => r[i].id = recs[i].Id
       /\ recs[i].Id \notin sfPresent => ~r[i].success}

Rejected(results) == {i \in 1..Len(results) : ~results[i].success}

\* Lines 632-646: one log entry per failed result, under result.get('id').
RECURSIVE RejectionLog(_, _)
RejectionLog(results, i) ==
  IF i > Len(results) THEN <<>>
  ELSE (IF results[i].success THEN <<>>
        ELSE <<[record_id |-> results[i].id, cause |-> "rejected"]>>)
       \o RejectionLog(results, i + 1)

\* Lines 652-662: every record of the list is logged with the shared cause.
BatchFailureLog(recs) ==
  [i \in 1..Len(recs) |-> [record_id |-> recs[i].Id, cause |-> MsgTransport]]

Ids(recs) == [i \in 1..Len(recs) |-> recs[i].Id]

\* Lines 593-664: nothing to do for an empty list; otherwise one bulk call
\* for the whole list, whose exception is caught and logged.
PerformBulkUpdates ==
  /\ pc = "dispatch"
  /\ \/ /\ update_records = <<>>
        /\ UNCHANGED <<sfField, bulkLog, errLog, fails>>
     \/ /\ update_records # <<>>
        /\ \E results \in BulkReplies(update_records) :
             /\ \/ /\ \A i \in Rejected(results) : update_records[i].Id \notin sfPresent
                   /\ UNCHANGED fails
                \/ /\ \E i \in Rejected(results) : update_records[i].Id \in sfPresent
                   /\ fails < MaxFail
                   /\ fails' = fails + 1
             /\ sfField' = ApplyUpdates(sfField, update_records, Rejected(results), 1)
             /\ errLog' = errLog \o RejectionLog(results, 1)
             /\ bulkLog' = Append(bulkLog, [ids |-> Ids(update_records), ok |-> TRUE,
                                            results |-> results])
     \/ /\ update_records # <<>>
        /\ fails < MaxFail
        /\ fails' = fails + 1
        /\ errLog' = errLog \o BatchFailureLog(update_records)
        /\ bulkLog' = Append(bulkLog, [ids |-> Ids(update_records), ok |-> FALSE,
                                       results |-> <<>>])
        /\ UNCHANGED sfField
  /\ pc' = "csv"
  /\ UNCHANGED <<listing, sfPresent, attachments, nextVer, run, indexVars, loopVars,
                 exts, csv, prev>>
  /\ UNCHANGED sideVars

(* --------------------- write_updated_records_to_csv -------------------- *)
\* strip_color_codes (39-41): the escape sequences are removed.
IsColorCode(piece) == piece \in {GREEN, RESET}
StripColorCodesIdentity(res) == res

StripColorCodes(res) == SelectSeq(res, LAMBDA piece : ~IsColorCode(piece))

CsvHeader == <<"Processed_File_Name", "Record_Name", "Archdpdx_Migration_Id__c",
               "Salesforce_Id", "Processing_Result">>

\* Lines 692-701: the line written for a row.
CsvLine(row) ==
  <<row.Processed_File_Name, row.Record_Name, row.MigrationId, row.Salesforce_Id,
    StripColorCodes(row.Processing_Result)>>

\* Lines 686-702: the header and one line per row, in order.
WriteCsv ==
  /\ pc = "csv"
  /\ csv' = <<CsvHeader>> \o [i \in 1..Len(rows) |-> CsvLine(rows[i])]
  /\ pc' = "menu"
  /\ UNCHANGED <<listing, crmVars, run, indexVars, loopVars, fails, exts, bulkLog,
                 errLog, prev>>
  /\ UNCHANGED sideVars

(* -------------------------- the environment ---------------------------- *)
\* Someone else changes the CRM.  A change shows at the next read of the
\* CRM, so it is taken right before one: the record fetch (the attachment
\* query that may follow reads the same state), the re-check before the
\* create, the bulk update, and the load of the next run.
ExtPoint ==
  /\ exts < MaxExt
  /\ \/ pc \in {"get_record", "verify", "dispatch"}
     \/ pc = "menu" /\ run >= 1 /\ run < MaxRuns

RemoveAt(q, i) == SubSeq(q, 1, i - 1) \o SubSeq(q, i + 1, Len(q))

ExtDeleteRecord ==
  /\ ExtPoint
  /\ Target(objName) \in sfPresent
  /\ sfPresent' = sfPresent \ {Target(objName)}
  /\ exts' = exts + 1
  /\ UNCHANGED <<listing, sfField, attachments, nextVer, run, pc, indexVars, loopVars,
                 fails, bulkLog, errLog, csv, prev>>
  /\ UNCHANGED sideVars

ExtDeleteAttachment ==
  /\ ExtPoint
  /\ \E i \in 1..Len(attachments) :
       /\ attachments[i].rec = Target(objName)
       /\ attachments' = RemoveAt(attachments, i)
  /\ exts' = exts + 1
  /\ UNCHANGED <<listing, sfPresent, sfField, nextVer, run, pc, indexVars, loopVars,
                 fails, bulkLog, errLog, csv, prev>>
  /\ UNCHANGED sideVars

\* The field is emptied, or rewritten by a rich-text editor.
ExtEditField ==
  /\ ExtPoint
  /\ \E v \in {EmptyStr, Normalize(sfField[Target(objName)])} :
       /\ v # sfField[Target(objName)]
       /\ sfField' = [sfField EXCEPT ![Target(objName)] = v]
  /\ exts' = exts + 1
  /\ UNCHANGED <<listing, sfPresent, attachments, nextVer, run, pc, indexVars, loopVars,
                 fails, bulkLog, errLog, csv, prev>>
  /\ UNCHANGED sideVars

(* -------------------------- specification ------------------------------ *)
\* A photo run: load_sf_data, check_drive_access, process_drive_files,
\* perform_bulk_updates and write_updated_records_to_csv of
\* common_functions.py, in the order process_photos names them, each given
\* what its signature asks for.
Next ==
  \/ LoadSfData
  \/ CheckDriveAccess
  \/ AccessDenied
  \/ ResolveSubdir
  \/ ListFiles
  \/ BeginFile
  \/ GetRecord
  \/ CheckMembership
  \/ QueryAttachment
  \/ Download
  \/ VerifyRecord
  \/ CreateAttachment
  \/ FetchCreated
  \/ EndLoop
  \/ PerformBulkUpdates
  \/ WriteCsv
  \/ ExtDeleteRecord
  \/ ExtDeleteAttachment
  \/ ExtEditField

Spec == Init /\ [][Next]_vars

(* ------------- the bulk loops of photos_to_*_bulk.py ------------------- *)
\* range(0, len(update_records), 100) for accounts, (.., 50) for contacts.
LegacyChunkSize(o) == IF o = "Account" THEN 2 * ChunkUnit ELSE ChunkUnit

Min(a, b) == IF a < b THEN a ELSE b

\* Mutations a page of files may have produced.
MutPool(o) == {[Id |-> Target(o), field |-> UploadTag(v, DocOf(v), NamePhoto5)] : v \in 3..5}

InitBulkLoop ==
  /\ listing = <<>>
  /\ sfPresent = RecIds
  /\ sfField = [r \in RecIds |-> NoneVal]
  /\ attachments = <<>>
  /\ nextVer = 6
  /\ run = 1
  /\ pc = "bulk_loop"
  /\ objName \in ObjectNames
  /\ id_map = <<>>
  /\ existing_images = <<>>
  /\ all_items = <<>>
  /\ idx = 0
  /\ cur = NoCur
  /\ update_records \in SeqsUpTo(MutPool(objName), MaxMut)
  /\ rows = <<>>
  /\ counters = ZeroCounters
  /\ calls = <<>>
  /\ fileLog = <<>>
  /\ fails = 0
  /\ exts = 0
  /\ bulkLog = <<>>
  /\ errLog = <<>>
  /\ csv = <<>>
  /\ prev = NoPrev
  /\ SideIdle

\* accounts 208-210, contacts 211-213: the next chunk is sent; nothing
\* around the call catches the exception of the CRM client, it leaves main().
LegacyBulkChunk ==
  /\ pc = "bulk_loop"
  /\ idx < Len(update_records)
  /\ LET chunk == SubSeq(update_records, idx + 1,
                         Min(idx + LegacyChunkSize(objName), Len(update_records)))
     IN \/ /\ sfField' = ApplyUpdates(sfField, chunk, {}, 1)
           /\ bulkLog' = Append(bulkLog, [ids |-> Ids(chunk), ok |-> TRUE, results |-> <<>>])
           /\ idx' = idx + LegacyChunkSize(objName)
           /\ UNCHANGED pc
        \/ /\ bulkLog' = Append(bulkLog, [ids |-> Ids(chunk), ok |-> FALSE, results |-> <<>>])
           /\ pc' = "raised"
           /\ UNCHANGED <<sfField, idx>>
  /\ UNCHANGED <<listing, sfPresent, attachments, nextVer, run, indexVars, all_items, cur,
                 update_records, rows, counters, calls, fileLog, fails, exts, errLog,
                 csv, prev>>
  /\ UNCHANGED sideVars

\* accounts 211, contacts 214: every chunk was sent.
LegacyBulkDone ==
  /\ pc = "bulk_loop"
  /\ idx >= Len(update_records)
  /\ pc' = "bulk_done"
  /\ UNCHANGED <<listing, crmVars, run, indexVars, loopVars, histVars>>
  /\ UNCHANGED sideVars

NextBulkLoop == LegacyBulkChunk \/ LegacyBulkDone

SpecBulkLoop == InitBulkLoop /\ [][NextBulkLoop]_vars

(* ----------------------- retry_on_failure (44-79) ---------------------- *)
\* Line 66: the statuses that are retried.
RetryableStatus == {429, 500, 502, 503, 504}
OtherStatus == {403, 404}
\* initial_wait and backoff a call may be decorated with.
WaitSeeds == {1, 2}
Factors == {1, 2, 3}
\* The headers of an error response: a suggested delay, or none.
HeaderSets == {{}, {<<"Retry-After", 5>>}}

\* What one invocation of the wrapped function may give: its value, an
\* HttpError with a response, or an exception without one.
Returned == [kind |-> "value", status |-> 0, headers |-> {}]
HttpErrors == [kind : {"HttpError"}, status : RetryableStatus \cup OtherStatus,
               headers : HeaderSets]
OtherError == [kind |-> "Exception", status |-> 0, headers |-> {}]

\* Line 66: hasattr(e, 'resp') and e.resp.status in [429, 500, 502, 503, 504]
IsRetryable(e) == e.kind = "HttpError" /\ e.status \in RetryableStatus

\* The CRM and the locals of a run before anything was done.
RunIdle ==
  /\ sfPresent = RecIds
  /\ sfField = [r \in RecIds |-> NoneVal]
  /\ attachments = <<>>
  /\ nextVer = 3
  /\ run = 0
  /\ id_map = <<>>
  /\ existing_images = <<>>
  /\ all_items = <<>>
  /\ idx = 0
  /\ cur = NoCur
  /\ update_records = <<>>
  /\ rows = <<>>
  /\ counters = ZeroCounters
  /\ calls = <<>>
  /\ fileLog = <<>>
  /\ fails = 0
  /\ exts = 0
  /\ bulkLog = <<>>
  /\ errLog = <<>>
  /\ csv = <<>>
  /\ prev = NoPrev

InitRetry ==
  /\ RunIdle
  /\ listing = <<>>
  /\ pc = "wrapper"
  /\ objName = "Account"
  /\ max_retries \in 0..MaxRetries
  /\ initial_wait \in WaitSeeds
  /\ backoff \in Factors
  /\ retries = 0
  /\ wait = initial_wait
  /\ attempts = <<>>
  /\ sleeps = <<>>
  /\ page_token = 0
  /\ environ = {}
  /\ missing_vars = <<>>
  /\ connected = <<>>

photoVars == <<listing, crmVars, run, indexVars, loopVars, histVars>>

\* Lines 62-64: the wrapped function is invoked and returns.
WrapperReturns ==
  /\ pc = "wrapper"
  /\ retries < max_retries
  /\ attempts' = Append(attempts, Returned)
  /\ pc' = "returned"
  /\ UNCHANGED <<photoVars, max_retries, initial_wait, backoff, retries, wait, sleeps,
                 page_token, environ, missing_vars, connected>>

\* Lines 65-74: a retryable failure is slept on and retried, or raised when
\* it is the last attempt.
WrapperRetryableOffByOne ==
  /\ pc = "wrapper"
  /\ retries < max_retries
  /\ \E e \in {x \in HttpErrors : IsRetryable(x)} :
       /\ attempts' = Append(attempts, e)
       /\ IF retries < max_retries
          THEN /\ sleeps' = Append(sleeps, wait)
               /\ retries' = retries + 1
               /\ wait' = wait * backoff
               /\ UNCHANGED pc
          ELSE /\ pc' = "raised"
               /\ UNCHANGED <<sleeps, retries, wait>>
  /\ UNCHANGED <<photoVars, max_retries, initial_wait, backoff, page_token, environ, missing_vars,
                 connected>>

WrapperRetryable ==
  /\ pc = "wrapper"
  /\ retries < max_retries
  /\ \E e \in {x \in HttpErrors : IsRetryable(x)} :
       /\ attempts' = Append(attempts, e)
       /\ IF retries < max_retries - 1
          THEN /\ sleeps' = Append(sleeps, wait)
               /\ retries' = retries + 1
               /\ wait' = wait * backoff
               /\ UNCHANGED pc
          ELSE /\ pc' = "raised"
               /\ UNCHANGED <<sleeps, retries, wait>>
  /\ UNCHANGED <<photoVars, max_retries, initial_wait, backoff, page_token, environ, missing_vars,
                 connected>>

\* Lines 75-77, and an exception the except clause does not name: raised at
\* once.
WrapperOtherRetried ==
  /\ pc = "wrapper"
  /\ retries < max_retries
  /\ \E e \in {x \in HttpErrors : ~IsRetryable(x)} \cup {OtherError} :
       /\ attempts' = Append(attempts, e)
       /\ IF retries < max_retries - 1
          THEN /\ sleeps' = Append(sleeps, wait)
               /\ retries' = retries + 1
               /\ wait' = wait * backoff
               /\ UNCHANGED pc
          ELSE /\ pc' = "raised"
               /\ UNCHANGED <<sleeps, retries, wait>>
  /\ UNCHANGED <<photoVars, max_retries, initial_wait, backoff, page_token, environ, missing_vars,
                 connected>>

WrapperOther ==
  /\ pc = "wrapper"
  /\ retries < max_retries
  /\ \E e \in {x \in HttpErrors : ~IsRetryable(x)} \cup {OtherError} :
       attempts' = Append(attempts, e)
  /\ pc' = "raised"
  /\ UNCHANGED <<photoVars, max_retries, initial_wait, backoff, retries, wait, sleeps,
                 page_token, environ, missing_vars, connected>>

\* Line 62 with max_retries = 0: the loop body never runs and the wrapper
\* returns None without invoking the function.
WrapperFallsThrough ==
  /\ pc = "wrapper"
  /\ ~(retries < max_retries)
  /\ pc' = "returned"
  /\ UNCHANGED <<photoVars, wrapperVars, sleeps, page_token, environ, missing_vars, connected>>

NextRetry ==
  \/ WrapperReturns
  \/ WrapperRetryable
  \/ WrapperOther
  \/ WrapperFallsThrough

SpecRetry == InitRetry /\ [][NextRetry]_vars

(* ------------- process_drive_files: the pages (407-438) ---------------- *)
MaxSleepLog == 2     \* sleeps of the listing loop that are remembered

\* The last MaxSleepLog sleeps.
Remember(log, s) ==
  IF Len(log) < MaxSleepLog THEN Append(log, s) ELSE Append(Tail(log), s)

\* int(error.resp.headers.get('Retry-After', 1))
RetryAfter(headers) ==
  IF headers = {} THEN 1 ELSE (CHOOSE h \in headers : h[1] = "Retry-After")[2]

InitListing ==
  /\ RunIdle
  /\ listing \in SeqsUpTo(Names, MaxFiles)
  /\ pc = "list_page"
  /\ objName \in ObjectNames
  /\ max_retries = 0
  /\ initial_wait = 0
  /\ backoff = 0
  /\ retries = 0
  /\ wait = 0
  /\ attempts = <<>>
  /\ sleeps = <<>>
  /\ page_token = 0
  /\ environ = {}
  /\ missing_vars = <<>>
  /\ connected = <<>>

\* Lines 411-422: a page is answered: the next files of the folder, and a
\* token while files remain; without a token the loop ends.
ListPage ==
  /\ pc = "list_page"
  /\ \E q \in page_token..Len(listing) :
       /\ q > page_token \/ q = Len(listing)
       /\ all_items' = all_items \o SubSeq(listing, page_token + 1, q)
       /\ IF q < Len(listing)
          THEN page_token' = q /\ UNCHANGED pc
          ELSE page_token' = 0 /\ pc' = "listed"
  /\ UNCHANGED <<listing, crmVars, run, indexVars, idx, cur, update_records, rows,
                 counters, calls, fileLog, histVars, wrapperVars, sleeps, environ, missing_vars,
                 connected>>

\* Lines 423-427: a 429 is slept on and the same page is asked for again.
ListRateLimitedSkipsPage ==
  /\ pc = "list_page"
  /\ \E headers \in HeaderSets :
       sleeps' = Remember(sleeps, RetryAfter(headers) + 1)
  /\ page_token' = Min(page_token + 1, Len(listing))
  /\ UNCHANGED <<photoVars, wrapperVars, pc, environ, missing_vars, connected>>

ListRateLimited ==
  /\ pc = "list_page"
  /\ \E headers \in HeaderSets :
       sleeps' = Remember(sleeps, RetryAfter(headers) + 1)
  /\ UNCHANGED <<photoVars, wrapperVars, pc, page_token, environ, missing_vars, connected>>

\* Lines 428-438: any other HttpError ends the function with one row about it.
ListFails ==
  /\ pc = "list_page"
  /\ rows' = Append(rows, SyntheticRow(<<"Drive File Listing">>,
                                       <<"Unexpected error listing Drive files: ", MsgTransport>>))
  /\ pc' = "returned"
  /\ UNCHANGED <<listing, crmVars, run, indexVars, all_items, idx, cur, update_records,
                 counters, calls, fileLog, histVars, sideVars>>

NextListing ==
  \/ ListPage
  \/ ListRateLimited
  \/ ListFails

\* The loop keeps taking its next iteration; what Drive answers is up to Drive.
SpecListing == InitListing /\ [][NextListing]_vars /\ WF_vars(NextListing)

(* ------------------- process_photos.py: main (147-211) ----------------- *)
\* required_vars_common (156-163), in list order.
CommonVars == <<"SF_USERNAME", "SF_SECURITY_TOKEN", "SF_DOMAIN", "FILE_DOMAIN",
                "SERVICE_ACCOUNT_FILE", "FOLDER_ID">>
\* Lines 190 and 201: the photo field setting of the chosen record type.
PhotoVar(o) == IF o = "Account" THEN "PHOTO_FIELD_ACCOUNT" ELSE "PHOTO_FIELD"
Settings == {CommonVars[i] : i \in 1..Len(CommonVars)} \cup {PhotoVar(o) : o \in ObjectNames}

\* Line 66: the names of the list that os.getenv answers nothing for.
Missing(required_vars) == SelectSeq(required_vars, LAMBDA v : v \notin environ)

InitMain ==
  /\ RunIdle
  /\ listing = <<>>
  /\ pc = "validate_common"
  /\ objName = "Account"
  /\ max_retries = 0
  /\ initial_wait = 0
  /\ backoff = 0
  /\ retries = 0
  /\ wait = 0
  /\ attempts = <<>>
  /\ sleeps = <<>>
  /\ page_token = 0
  /\ environ \in SUBSET Settings
  /\ missing_vars = <<>>
  /\ connected = <<>>

\* validate_environment_variables (56-69): the missing names are printed and
\* the program exits, or the caller goes on to next.
Validate(required_vars, next) ==
  IF Missing(required_vars) # <<>>
  THEN /\ missing_vars' = Missing(required_vars)
       /\ pc' = "exit_missing"
  ELSE /\ pc' = next
       /\ UNCHANGED missing_vars

\* Line 165.
ValidateCommon ==
  /\ pc = "validate_common"
  /\ Validate(CommonVars, "connect_sf")
  /\ UNCHANGED <<listing, crmVars, run, indexVars, loopVars, histVars, wrapperVars,
                 sleeps, page_token, environ, connected>>

\* Line 167, initialize_salesforce_connection (71-88): the login; its
\* failure leaves main().
InitializeSalesforceConnection ==
  /\ pc = "connect_sf"
  /\ connected' = Append(connected, "salesforce")
  /\ pc' \in {"connect_drive", "raised"}
  /\ UNCHANGED <<listing, crmVars, run, indexVars, loopVars, histVars, wrapperVars,
                 sleeps, page_token, environ, missing_vars>>

\* Line 168, initialize_drive_service (90-102).
InitializeDriveService ==
  /\ pc = "connect_drive"
  /\ connected' = Append(connected, "drive")
  /\ pc' \in {"choice", "raised"}
  /\ UNCHANGED <<listing, crmVars, run, indexVars, loopVars, histVars, wrapperVars,
                 sleeps, page_token, environ, missing_vars>>

\* Lines 171-208: the menu; 1 and 2 pick the record type, 3 leaves.
MenuChoice ==
  /\ pc = "choice"
  /\ \/ \E o \in ObjectNames : objName' = o /\ pc' = "validate_choice"
     \/ pc' = "exit" /\ UNCHANGED objName
  /\ UNCHANGED <<listing, crmVars, run, id_map, existing_images, loopVars, histVars,
                 wrapperVars, sleeps, page_token, environ, missing_vars, connected>>

\* Lines 190-191 and 201-202: the settings are validated again, with the
\* photo field of the chosen type.
ValidateChoice ==
  /\ pc = "validate_choice"
  /\ Validate(Append(CommonVars, PhotoVar(objName)), "process_photos")
  /\ UNCHANGED <<listing, crmVars, run, indexVars, loopVars, histVars, wrapperVars,
                 sleeps, page_token, environ, connected>>

\* process_photos (104-145) as it is written: load_sf_data queries the CRM
\* and returns the pair (id_map, existing_images) (371); lines 118 and 122
\* unpack it into three names, which raises ValueError, and nothing in
\* process_photos or main catches it.  Lines 127-145 are never reached; they
\* would hand the result of perform_bulk_updates, not the rows, to
\* write_updated_records_to_csv, with five arguments for its three parameters.
ProcessPhotos ==
  /\ pc = "process_photos"
  /\ connected' = Append(connected, "salesforce")
  /\ pc' = "process_photos_raised"
  /\ UNCHANGED <<listing, crmVars, run, indexVars, loopVars, histVars, wrapperVars,
                 sleeps, page_token, environ, missing_vars>>

NextMain ==
  \/ ValidateCommon
  \/ InitializeSalesforceConnection
  \/ InitializeDriveService
  \/ MenuChoice
  \/ ValidateChoice
  \/ ProcessPhotos

SpecMain == InitMain /\ [][NextMain]_vars

(* ============================ properties =============================== *)
\* Calls that leave the process: CRM reads and writes, the Drive download.
NetworkCalls == {"get_record", "query", "download", "verify_record", "create", "fetch_created"}

\* The loop over the listed files was entered (466): the listing succeeded
\* and was not empty.
LoopEntered == idx >= 1

\* process_drive_files has returned from its loop over a non-empty listing.
LoopReturned == pc \in {"dispatch", "csv", "menu"} /\ LoopEntered

\* The file whose row was written last, right after it was written.
JustFinished == pc = "loop" /\ fileLog # <<>>
LastLog == fileLog[Len(fileLog)]
LastRow == rows[Len(rows)]

IsError(res) == Len(res) = 2 /\ res[1] = "Error: "
HasCall(log, call) == \E k \in 1..Len(log) : log[k].call = call
AllOk(log) == \A k \in 1..Len(log) : log[k].ok

\* The steps of the file in progress and of every file processed in this run.
Logs == {calls} \cup {fileLog[i].calls : i \in 1..Len(fileLog)}

\* C1: process_drive_files returns one row per listed file, the i-th row for
\* the i-th file, and no row keeps the initial result 'Unknown', whatever
\* the outcomes were.
C1_OneRowPerFileInOrder ==
  /\ pc = "loop" => Len(rows) = idx - 1
  /\ LoopReturned =>
       /\ Len(rows) = Len(all_items)
       /\ \A i \in 1..Len(rows) :
             /\ rows[i].Processed_File_Name = all_items[i]
             /\ rows[i].Processing_Result # ResUnknown

C1_Witness ==
  /\ pc = "dispatch"
  /\ Len(all_items) >= 2
  /\ IsError(rows[1].Processing_Result)
  /\ rows[2].Processing_Result = ResInvalid

\* The file of row i is the only listed file of its record, and the record
\* holds at most one attachment of that name.
SoleFileOfRecord(i) ==
  /\ rows[i].Salesforce_Id # NoId
  /\ \A j \in 1..Len(rows) : j # i => rows[j].Salesforce_Id # rows[i].Salesforce_Id
  /\ Cardinality({k \in 1..Len(attachments) :
                     /\ attachments[k].name = rows[i].Processed_File_Name
                     /\ attachments[k].rec = rows[i].Salesforce_Id}) <= 1

\* The second (or a later) run has processed its files, and nothing failed
\* and nobody else changed the CRM since the first run started.
SecondRunUndisturbed ==
  /\ run >= 2
  /\ pc \in {"dispatch", "csv"}
  /\ all_items # <<>>
  /\ fails = 0
  /\ exts = 0

FoundExisting ==
  /\ JustFinished
  /\ LastLog.calls # <<>>
  /\ LastLog.calls[Len(LastLog.calls)] = Ev("query", TRUE)

\* C3: when the name is in the attachment index and the query finds the
\* attachment, the file is Updated with the mutation {record, canonical tag}
\* exactly when the normalised field differs from the normalised tag, and
\* Skipped without mutation otherwise; an empty or missing field is Updated.
C3_UpdatedIffFieldDiffers ==
  FoundExisting =>
    /\ InIndex(LastRow.Processed_File_Name, LastRow.Salesforce_Id)
    /\ \E k \in 1..Len(attachments) :
         LET a == attachments[k]
             tag == Html("closed", a.id, DocOf(a.id), a.name)
             stored == IF LastLog.field = NoneVal THEN EmptyStr ELSE LastLog.field
         IN /\ a.name = LastRow.Processed_File_Name
            /\ a.rec = LastRow.Salesforce_Id
            /\ IF Normalize(stored) # Normalize(tag)
               THEN /\ LastRow.Processing_Result = ResUpdated
                    /\ LastLog.mut = [Id |-> a.rec, field |-> tag]
               ELSE /\ LastRow.Processing_Result = ResSkipped
                    /\ LastLog.mut = NoMut
    /\ LastLog.field \in {NoneVal, EmptyStr} => LastRow.Processing_Result = ResUpdated

\* The stored tag is spelled differently from the canonical one and the
\* file is skipped.
C3_Witness ==
  /\ FoundExisting
  /\ LastLog.field.form = "selfclosed"
  /\ LastRow.Processing_Result = ResSkipped

\* C4: a file with a record, not in the attachment index, all of whose calls
\* succeed, is downloaded once, gets exactly one new attachment on its
\* record, a mutation with the tag of that attachment's version and document
\* ids, and the outcome Loaded-Linked.
C4_UploadPath ==
  (JustFinished /\ LastRow.Salesforce_Id # NoId /\ AllOk(LastLog.calls)
     /\ ~InIndex(LastRow.Processed_File_Name, LastRow.Salesforce_Id)) =>
    /\ LastLog.calls = <<Ev("get_record", TRUE), Ev("member_check", TRUE),
                         Ev("download", TRUE), Ev("verify_record", TRUE),
                         Ev("create", TRUE), Ev("fetch_created", TRUE)>>
    /\ LastRow.Processing_Result = ResLoaded
    /\ attachments # <<>>
    /\ LET a == attachments[Len(attachments)] IN
         /\ a.id = nextVer - 1
         /\ a.name = LastRow.Processed_File_Name
         /\ a.rec = LastRow.Salesforce_Id
         /\ LastLog.mut.Id = a.rec
         /\ LastLog.mut.field.ver = a.id
         /\ LastLog.mut.field.doc = DocOf(a.id)
         /\ LastLog.mut.field.name = a.name

C4_Witness ==
  /\ JustFinished
  /\ LastRow.Processing_Result = ResLoaded
  /\ LastRow.Salesforce_Id = "K1"
  /\ LastRow.Processed_File_Name = NamePhoto005

\* C5: when the attachment index lists the name but the CRM holds no such
\* attachment, the file ends with Error and no mutation, and nothing is
\* downloaded or created for it.
C5_IndexInconsistency ==
  (JustFinished /\ LastRow.Salesforce_Id # NoId
     /\ InIndex(LastRow.Processed_File_Name, LastRow.Salesforce_Id)
     /\ QueryRows(LastRow.Processed_File_Name, LastRow.Salesforce_Id) = {}) =>
    /\ IsError(LastRow.Processing_Result)
    /\ LastLog.mut = NoMut
    /\ ~HasCall(LastLog.calls, "download")
    /\ ~HasCall(LastLog.calls, "create")
    /\ (\A k \in 1..Len(LastLog.calls) :
          LastLog.calls[k].msg \notin {MsgTransport, MsgRecordNotFound})
         => LastRow.Processing_Result = ResError(MsgNotInSalesforce)

C5_Witness ==
  /\ JustFinished
  /\ LastRow.Processing_Result = ResError(MsgNotInSalesforce)
  /\ InIndex(LastRow.Processed_File_Name, LastRow.Salesforce_Id)

\* C6: a failing call of file i gives file i the outcome Error with the
\* message of the failure and no mutation; the files after it still get
\* their rows, and the mutations collected before it are kept.
C6_FailureIsolation ==
  /\ LoopEntered => Len(fileLog) = Len(rows)
  /\ \A i \in 1..Len(fileLog) :
       \A k \in 1..Len(fileLog[i].calls) :
         ~fileLog[i].calls[k].ok =>
           /\ k = Len(fileLog[i].calls)
           /\ rows[i].Processing_Result = ResError(fileLog[i].calls[k].msg)
           /\ fileLog[i].mut = NoMut
  /\ update_records = MutsOf(fileLog)
  /\ LoopReturned => Len(rows) = Len(all_items)

\* The first file fails in transport, the second is uploaded.
C6_Witness ==
  /\ pc = "dispatch"
  /\ Len(rows) >= 2
  /\ rows[1].Processing_Result = ResError(MsgTransport)
  /\ rows[2].Processing_Result = ResLoaded
  /\ update_records = <<fileLog[2].mut>>

\* C7: a file whose name does not match, or whose migration id has no record,
\* gets its row (Invalid file name format / SF Record Not Found) without any
\* call to the CRM or to Drive and without a mutation, and the loop goes on.
C7_NoCallsWithoutRecord ==
  /\ LoopEntered => Len(fileLog) = Len(rows)
  /\ pc = "loop" => Len(rows) = idx - 1
  /\ \A i \in 1..Len(fileLog) :
       LET name == rows[i].Processed_File_Name
           digits == RegexMatch(name)
       IN /\ digits = NoMatch =>
               /\ rows[i].Processing_Result = ResInvalid
               /\ fileLog[i].calls = <<>>
               /\ fileLog[i].mut = NoMut
          /\ (digits # NoMatch
                /\ MigrationId(objName, LStripZeros(digits)) \notin DOMAIN id_map) =>
               /\ rows[i].Processing_Result = ResNotFound
               /\ fileLog[i].calls = <<>>
               /\ fileLog[i].mut = NoMut
          /\ rows[i].Processing_Result \in {ResInvalid, ResNotFound} =>
               /\ fileLog[i].calls = <<>>
               /\ fileLog[i].mut = NoMut

C7_Witness ==
  /\ pc = "dispatch"
  /\ Len(rows) >= 2
  /\ rows[1].Processing_Result = ResNotFound
  /\ rows[2].Processing_Result = ResLoaded
  /\ fileLog[1].calls = <<>>

\* C8 as stated: no network call is issued for a file before the membership
\* of its name in the attachment index has been checked.
C8_Original ==
  \A log \in Logs :
    \A k \in 1..Len(log) :
      log[k].call \in NetworkCalls => \E j \in 1..(k - 1) : log[j].call = "member_check"

\* C8 (amended): the fetch of the record is the only network call issued for
\* a file before the membership test; the attachment query, the download,
\* the second record fetch, the attachment creation and its fetch all come
\* after the membership test, which follows the successful record fetch.
C8_MembershipBeforeTransfer ==
  \A log \in Logs :
    \A k \in 1..Len(log) :
      /\ log[k].call \in NetworkCalls \ {"get_record"} =>
           \E j \in 1..(k - 1) : log[j].call = "member_check"
      /\ log[k].call = "member_check" =>
           k = 2 /\ log[1] = Ev("get_record", TRUE)
      /\ log[k].call = "get_record" => k = 1

\* The file is about to be downloaded, after the membership test.
C8_Witness ==
  /\ pc = "verify"
  /\ calls = <<Ev("get_record", TRUE), Ev("member_check", TRUE), Ev("download", TRUE)>>

\* C9: an attachment is created only after a successful existence check of
\* the record made after the download, so the record exists when the
\* attachment is created; a record that is gone at the re-check gives Error,
\* no mutation and no attachment.
C9_RecheckBeforeCreate ==
  /\ pc = "create" => cur.rec \in sfPresent
  /\ \A log \in Logs :
       \A k \in 1..Len(log) :
         log[k].call = "create" =>
           /\ k >= 3
           /\ log[k - 1] = Ev("verify_record", TRUE)
           /\ log[k - 2] = Ev("download", TRUE)
  /\ \A i \in 1..Len(fileLog) :
       LET log == fileLog[i].calls IN
       (log # <<>> /\ log[Len(log)].call = "verify_record" /\ ~log[Len(log)].ok) =>
         /\ IsError(rows[i].Processing_Result)
         /\ fileLog[i].mut = NoMut
         /\ ~HasCall(log, "create")

\* The record vanished between the first fetch and the re-check.
C9_Witness ==
  /\ JustFinished
  /\ LastLog.calls = <<Ev("get_record", TRUE), Ev("member_check", TRUE),
                       Ev("download", TRUE), Failed("verify_record", MsgRecordNotFound)>>
  /\ LastRow.Processing_Result = ResError(MsgRecordNotFound)

\* ceil(n / k)
CeilDiv(n, k) == (n + k - 1) \div k

\* The record ids of all bulk calls, in call order.
RECURSIVE SentIds(_)
SentIds(log) == IF log = <<>> THEN <<>> ELSE Head(log).ids \o SentIds(Tail(log))

\* C10: dispatching N mutations with chunk size K issues ceil(N/K) bulk
\* calls, every mutation in exactly one chunk, also when the bulk call of a
\* chunk fails.
C10_Original ==
  pc \in {"bulk_done", "raised"} =>
    /\ Len(bulkLog) = CeilDiv(Len(update_records), LegacyChunkSize(objName))
    /\ SentIds(bulkLog) = Ids(update_records)

\* perform_bulk_updates has returned from a bulk call.
BulkReturned == pc = "csv" /\ update_records # <<>> /\ bulkLog # <<>>
LastBulk == bulkLog[Len(bulkLog)]

\* The log entries the claim asks of a reply: one per rejected record, under
\* the id of that record.
RECURSIVE LogUnderRecordIds(_, _, _)
LogUnderRecordIds(recs, results, i) ==
  IF i > Len(results) THEN <<>>
  ELSE (IF results[i].success THEN <<>>
        ELSE <<[record_id |-> recs[i].Id, cause |-> "rejected"]>>)
       \o LogUnderRecordIds(recs, results, i + 1)

\* C11: perform_bulk_updates returns normally; a rejected record is logged
\* once under its id, and when the bulk call itself fails every record of the
\* call is logged with the shared cause.
C11_Original ==
  BulkReturned =>
    IF LastBulk.ok
    THEN errLog = LogUnderRecordIds(update_records, LastBulk.results, 1)
    ELSE errLog = [i \in 1..Len(update_records) |->
                     [record_id |-> update_records[i].Id, cause |-> MsgTransport]]

\* Every invocation of the wrapped function so far failed with a retryable status.
AllRetryable == \A k \in 1..Len(attempts) : IsRetryable(attempts[k])

RECURSIVE Pow(_, _)
Pow(b, n) == IF n = 0 THEN 1 ELSE b * Pow(b, n - 1)

\* C12: with max_retries = M >= 1 and every attempt failing with a retryable
\* status, the wrapped function is invoked exactly M times, the wait before
\* retry i+1 is initial_wait * backoff^i (M-1 waits), and the failure is then
\* raised to the caller; the wrapper does not return.
C12_RetryCap ==
  (max_retries >= 1 /\ AllRetryable) =>
    /\ Len(attempts) <= max_retries
    /\ pc # "returned"
    /\ \A i \in 1..Len(sleeps) : sleeps[i] = initial_wait * Pow(backoff, i - 1)
    /\ pc = "wrapper" => Len(attempts) < max_retries /\ Len(sleeps) = Len(attempts)
    /\ pc = "raised" => Len(attempts) = max_retries /\ Len(sleeps) = max_retries - 1

\* Three attempts, two waits, then the failure is raised.
C12_Witness ==
  /\ pc = "raised"
  /\ max_retries = 3
  /\ AllRetryable
  /\ Len(attempts) = 3
  /\ sleeps = <<2, 6>>

\* C13: a failure that is not retryable (another status, or no status) is
\* raised at once: it is the last invocation and no wait follows it.
C13_NonRetryablePropagates ==
  \A k \in 1..Len(attempts) :
    (attempts[k].kind # "value" /\ ~IsRetryable(attempts[k])) =>
      /\ k = Len(attempts)
      /\ pc = "raised"
      /\ Len(sleeps) = k - 1

\* A 403 on the second attempt, after one retried failure.
C13_Witness ==
  /\ pc = "raised"
  /\ Len(attempts) = 2
  /\ attempts[2].kind = "HttpError"
  /\ attempts[2].status = 403
  /\ Len(sleeps) = 1
  /\ max_retries = 3

\* C14: when a retryable failure carries a server-suggested delay, the wait
\* before the next attempt is that delay, not the computed backoff.
C14_Original ==
  \A i \in 1..Len(sleeps) :
    \A h \in attempts[i].headers : h[1] = "Retry-After" => sleeps[i] = h[2]

\* C15: the listing loop retries a 429 only a capped number of times per
\* page, so process_drive_files leaves the loop even when Drive keeps
\* answering 429.
C15_Original == <>(pc # "list_page")

\* The number of rows whose outcome is in the set.
RowsWith(outcomes) == Cardinality({i \in 1..Len(rows) : rows[i].Processing_Result \in outcomes})
ErrorRows == Cardinality({i \in 1..Len(rows) : IsError(rows[i].Processing_Result)})

\* C16: when process_drive_files ends, the counters kept during the loop
\* equal the counts of the rows by outcome: updated = Updated or
\* Loaded-Linked rows, skipped = Skipped rows, errors = Error, Not Found and
\* Invalid format rows.
C16_Original ==
  (pc = "dispatch" /\ LoopEntered) =>
    /\ counters.updated = RowsWith({ResUpdated, ResLoaded})
    /\ counters.skipped = RowsWith({ResSkipped})
    /\ counters.errors = ErrorRows + RowsWith({ResNotFound, ResInvalid})

\* The text of an outcome as it is meant to read in the export.
PlainText(res) ==
  CASE res = ResUpdated -> <<"Updated">>
    [] res = ResLoaded -> <<"Loaded-Linked (Pass)">>
    [] OTHER -> res

\* C17: the export is the header followed by one line per row, in row order,
\* and the result column of every line carries no colour code, also for the
\* Updated and Loaded-Linked outcomes, which are produced in colour.
C17_CsvPlainAndOrdered ==
  csv # <<>> =>
    /\ csv[1] = CsvHeader
    /\ Len(csv) = Len(rows) + 1
    /\ \A i \in 1..Len(rows) :
         /\ csv[i + 1][1] = rows[i].Processed_File_Name
         /\ csv[i + 1][2] = rows[i].Record_Name
         /\ csv[i + 1][3] = rows[i].MigrationId
         /\ csv[i + 1][4] = rows[i].Salesforce_Id
         /\ csv[i + 1][5] = PlainText(rows[i].Processing_Result)
         /\ \A k \in 1..Len(csv[i + 1][5]) : csv[i + 1][5][k] \notin {GREEN, RESET}

\* An uploaded file after a file without a usable name.
C17_Witness ==
  /\ Len(csv) = 3
  /\ rows[1].Processing_Result = ResInvalid
  /\ rows[2].Processing_Result = ResLoaded
  /\ csv[3][5] = <<"Loaded-Linked (Pass)">>

\* C19: when the subfolder cannot be resolved or holds no image file,
\* process_drive_files returns exactly one row, which names no record, and
\* no mutation, and nothing was fetched, downloaded or attached.
C19_SyntheticRow ==
  /\ (pc = "dispatch" /\ ~LoopEntered) =>
       /\ Len(rows) = 1
       /\ rows[1].Salesforce_Id = NoId
       /\ rows[1].Processed_File_Name[1] \in {"Subdirectory: ", "Drive File Listing"}
       /\ rows[1].Processing_Result[1] = "No image files found" => listing = <<>>
       /\ update_records = <<>>
       /\ fileLog = <<>>
       /\ calls = <<>>
  /\ (pc = "dispatch" /\ listing = <<>>) => all_items = <<>>

\* The subfolder could not be resolved.
C19_Witness ==
  /\ pc = "dispatch"
  /\ rows = <<SyntheticRow(<<"Subdirectory: ", "Contacts">>,
                            <<"Error finding or creating subdirectory ", "Contacts">>)>>
  /\ listing # <<>>

\* C18: a run of process_photos leaves an export with the header and one
\* line per outcome row, whatever became of the bulk update.
C18_Original ==
  pc = "process_photos_raised" =>
    /\ csv # <<>>
    /\ csv[1] = CsvHeader
    /\ Len(csv) = Len(rows) + 1

\* C20: when a required setting is missing (a common one, or the photo
\* field of the chosen type), the program exits with the list of the missing
\* names before any connection or call to the CRM or to Drive was made.
C20_Original ==
  /\ pc = "exit_missing" =>
       /\ missing_vars # <<>>
       /\ \A i \in 1..Len(missing_vars) : missing_vars[i] \in Settings \ environ
       /\ connected = <<>>
  /\ connected # <<>> => \A i \in 1..Len(CommonVars) : CommonVars[i] \in environ
  /\ pc \in {"process_photos", "process_photos_raised"} => PhotoVar(objName) \in environ

\* The access check of the folder failed: denied, or the error was raised.
AccessError == pc \in {"access_denied", "access_raised"}

\* C21: an access error on the folder (unreachable or denied) aborts the run
\* of the chosen type only: nothing is listed or reconciled, no attachment is
\* created, no bulk update is sent, and control returns to the menu.
C21_Original ==
  /\ AccessError =>
       /\ all_items = <<>>
       /\ rows = <<>>
       /\ fileLog = <<>>
       /\ calls = <<>>
       /\ update_records = <<>>
       /\ bulkLog = <<>>
  /\ pc # "access_raised"

\* The whole name is 'photo', a run of digits and '.jpg', ignoring case.
WholeNameMatches(s) ==
  /\ RegexMatch(s) # NoMatch
  /\ Len(s) = 5 + Len(RegexMatch(s)) + 4

\* C22: a file name yields an identifier only when the whole name is
\* 'photo', digits, '.jpg'; every other name, one with characters after the
\* extension included, yields none and gets Invalid file name format,
\* without a call and without a mutation.
C22_Original ==
  \A i \in 1..Len(fileLog) :
    IF WholeNameMatches(rows[i].Processed_File_Name)
    THEN rows[i].Processing_Result # ResInvalid
    ELSE /\ rows[i].Processing_Result = ResInvalid
         /\ rows[i].MigrationId = <<"N/A">>
         /\ fileLog[i].calls = <<>>
         /\ fileLog[i].mut = NoMut

\* The steps that transfer a file: the download, the re-check and the create.
OnUploadPath == pc \in {"download", "verify", "create", "fetch"}

\* C23: for a file whose name is in the attachment index of its record,
\* nothing is downloaded and no attachment is created, whatever its
\* outcome is (Skipped, Updated or Error).
C23_ShortCircuit ==
  /\ \A i \in 1..Len(fileLog) :
       (rows[i].Salesforce_Id # NoId
          /\ InIndex(rows[i].Processed_File_Name, rows[i].Salesforce_Id)) =>
         /\ ~HasCall(fileLog[i].calls, "download")
         /\ ~HasCall(fileLog[i].calls, "create")
         /\ \/ rows[i].Processing_Result \in {ResSkipped, ResUpdated}
            \/ IsError(rows[i].Processing_Result)
  /\ (cur.rec # NoId /\ InIndex(cur.file_name, cur.rec)) =>
       /\ ~OnUploadPath
       /\ ~HasCall(calls, "download")
       /\ ~HasCall(calls, "create")

\* A file of the index whose field is out of date: Updated after the record
\* fetch, the membership test and the attachment query, and nothing else.
C23_Witness ==
  /\ JustFinished
  /\ InIndex(LastRow.Processed_File_Name, LastRow.Salesforce_Id)
  /\ LastRow.Processing_Result = ResUpdated
  /\ LastLog.calls = <<Ev("get_record", TRUE), Ev("member_check", TRUE), Ev("query", TRUE)>>

\* The files of this run for which an attachment named n was created on record r.
CreatedFor(r, n) ==
  {i \in 1..Len(fileLog) :
     /\ rows[i].Salesforce_Id = r
     /\ rows[i].Processed_File_Name = n
     /\ Created(fileLog[i].calls)}

\* C24: within one run at most one attachment is created for a pair of
\* record and file name, also when the listing holds two files of the same
\* name.
C24_Original ==
  \A r \in RecIds : \A n \in Names : Cardinality(CreatedFor(r, n)) <= 1

\* C25: the mutation list handed to perform_bulk_updates holds at most one
\* mutation per record, also when two file names give the same migration id
\* (photo5.jpg and Photo005.JPG).
C25_Original ==
  pc = "dispatch" =>
    \A i \in 1..Len(update_records) : \A j \in 1..Len(update_records) :
      update_records[i].Id = update_records[j].Id => i = j

\* The file of row i got an attachment in the previous run without the
\* field being written, nobody else changed the CRM since, and every call
\* made for the file in this run succeeded.
Recovering(i) ==
  /\ run >= 2
  /\ exts = 0
  /\ [rec |-> rows[i].Salesforce_Id, name |-> rows[i].Processed_File_Name] \in prev.orphans
  /\ AllOk(fileLog[i].calls)

\* C26: a file that got its attachment in one run while the field was not
\* updated (the fetch after the create failed, or the bulk update rejected
\* the record or failed) is handled in the next run on the
\* existing-attachment path: no download, no second attachment, and the
\* outcome Updated with a mutation that sets the canonical tag.
C26_Original ==
  \A i \in 1..Len(fileLog) :
    Recovering(i) =>
      /\ ~HasCall(fileLog[i].calls, "download")
      /\ ~HasCall(fileLog[i].calls, "create")
      /\ rows[i].Processing_Result = ResUpdated
      /\ \E k \in QueryRows(rows[i].Processed_File_Name, rows[i].Salesforce_Id) :
           fileLog[i].mut =
             [Id |-> rows[i].Salesforce_Id,
              field |-> ExistingTag(attachments[k].id, DocOf(attachments[k].id),
                                    rows[i].Processed_File_Name)]

\* C27: for every max_retries, 0 included, the wrapper ends by returning the
\* value of a successful invocation or by raising the failure of its last
\* invocation; it never returns without a successful invocation.
C27_Original ==
  /\ pc = "returned" =>
       /\ attempts # <<>>
       /\ attempts[Len(attempts)] = Returned
  /\ pc = "raised" =>
       /\ attempts # <<>>
       /\ attempts[Len(attempts)].kind # "value"

\* C28: a page request that fails with 429 is repeated with the same page
\* token: while pages are listed the processing list is the files of the
\* pages answered so far, and when listing completes it is every file of
\* every page, once each and in page order.
C28_RetrySamePage ==
  /\ pc = "list_page" => all_items = SubSeq(listing, 1, page_token)
  /\ pc = "listed" => all_items = listing

\* Two files were listed and the loop slept on two 429 answers, one without
\* and one with a suggested delay.
C28_Witness ==
  /\ pc = "listed"
  /\ Len(all_items) = 2
  /\ all_items[1] # all_items[2]
  /\ sleeps = <<2, 6>>

\* The row process_drive_files returns about a failed listing.
ListingErrorRow ==
  SyntheticRow(<<"Drive File Listing">>,
               <<"Unexpected error listing Drive files: ", MsgTransport>>)

\* The listing of this run failed with another error than 429.
ListingFailed == rows # <<>> /\ rows[1] = ListingErrorRow

\* C29: when a page fails with another error than 429 after earlier pages
\* were listed, process_drive_files returns no mutation and the one row
\* about the listing; none of the listed files is reconciled: no record is
\* fetched, nothing is downloaded, no attachment is created.
C29_ListingFailureDropsAll ==
  ListingFailed =>
    /\ pc \in {"dispatch", "csv", "menu"}
    /\ rows = <<ListingErrorRow>>
    /\ update_records = <<>>
    /\ fileLog = <<>>
    /\ calls = <<>>
    /\ ~LoopEntered
    /\ bulkLog = <<>>

\* The first of two files, one with a record, was listed before the second
\* page failed.
C29_Witness ==
  /\ pc = "dispatch"
  /\ ListingFailed
  /\ Len(listing) = 2
  /\ all_items = <<NamePhoto5>>
  /\ Lookup(MigrationId(objName, <<"5">>)) # NoId

\* C30: after reconciliation and bulk dispatch, every record whose row says
\* Updated or Loaded-Linked holds the tag of that row's file in its photo
\* field, also when the bulk update rejected records or failed.
C30_Original ==
  (pc = "csv" /\ exts = 0) =>
    \A i \in 1..Len(fileLog) :
      rows[i].Processing_Result \in {ResUpdated, ResLoaded} =>
        sfField[rows[i].Salesforce_Id] = fileLog[i].mut.field
====
